---- MODULE Spec2Model ----
(***************************************************************************)
(* A state-machine model of the reading bot (src/bot.py, src/reading.py):  *)
(* the per-thread reading session, the chunk builder, the delivery engine, *)
(* the daily scheduler and the reaction consensus gate.                    *)
(*                                                                         *)
(* Texts are sequences of characters.  The character "n" is the newline;   *)
(* every other character stands for a run of ordinary prose.  A paragraph  *)
(* is a text, a chunk is the text of its paragraphs joined by a blank line *)
(* (two newlines).                                                         *)
(***************************************************************************)
EXTENDS Integers, Sequences, FiniteSets, TLC

VARIABLES
    books,        \* bot.py:51   channel id -> ChannelBookState
    now,          \* dt.datetime.now(): [date, minute]
    nextMsgId,    \* the id the platform gives the next chunk message sent
    loopRunning,  \* check_scheduled_posts.is_running()
    tasks,        \* the handlers suspended at an await (interleaved runs)
    ev,           \* what the last handler did (observation only)
    hist,         \* per channel: what has been delivered (observation only)
    cb            \* the chunk-builder being exercised on its own

vars == <<books, now, nextMsgId, loopRunning, tasks, ev, hist, cb>>

----------------------------------------------------------------------------
(* Bounds of the model. *)

MaxParas == 3        \* paragraphs of a loaded text
MaxSegs == 2         \* messages one chunk renders to
MaxMsgs == 3         \* chunk messages sent in one run
MaxDay == 2          \* calendar dates 1..MaxDay
MaxSlot == 1         \* minutes of a day 0..MaxSlot
MaxParLen == 2       \* characters of a paragraph given to the chunk builder
MaxTasks == 2        \* handlers in flight at once

(* Program constants. *)

None == -1                 \* Optional[...] = None
DEFAULT_CHUNK_SIZE == 3    \* create_reading_thread(default_chunk_size=3)
MIN_CHUNK_SIZE == 1        \* max(1, ...)
MAX_CHUNK_SIZE == 50       \* min(50, ...)

Channels == {1}
Threads == {1, 2}          \* the two threads of the runs with more than one
Users == {"A", "B"}
SelfId == "bot"            \* client.user.id
Actors == Users \cup {SelfId}
NL == "n"
SEP == <<NL, NL>>          \* "\n\n"
Prose == <<"a", "b", "c", "d", "e", "f", "g", "h">>

Min(a, b) == IF a <= b THEN a ELSE b
Max(a, b) == IF a >= b THEN a ELSE b

----------------------------------------------------------------------------
(* reading.py: the chunk builder. *)

RECURSIVE Join(_)
\* "\n\n".join(parts)
Join(parts) ==
    IF Len(parts) = 0 THEN <<>>
    ELSE IF Len(parts) = 1 THEN parts[1]
    ELSE parts[1] \o SEP \o Join(Tail(parts))

RECURSIVE SplitFrom(_, _)
\* text.split("\n\n"), scanning left to right; cur is the piece being read
SplitFrom(text, cur) ==
    IF Len(text) = 0 THEN <<cur>>
    ELSE IF Len(text) >= 2 /\ text[1] = NL /\ text[2] = NL
         THEN <<cur>> \o SplitFrom(SubSeq(text, 3, Len(text)), <<>>)
         ELSE SplitFrom(Tail(text), Append(cur, Head(text)))

Split(text) == SplitFrom(text, <<>>)

\* A faulty variant of normalized_size: the upper limit forgotten.
normalized_size_floor(chunk_size) == Max(MIN_CHUNK_SIZE, chunk_size)

\* max(1, min(50, chunk_size))
normalized_size(chunk_size) == Max(MIN_CHUNK_SIZE, Min(MAX_CHUNK_SIZE, chunk_size))

RECURSIVE Slices(_, _, _)
\* "\n\n".join(paragraphs[i:i + n]) for i, i + n, ... below len(paragraphs);
\* a slice ends where the list ends
Slices(paragraphs, i, n) ==
    IF i >= Len(paragraphs) THEN <<>>
    ELSE <<Join(SubSeq(paragraphs, i + 1, Min(i + n, Len(paragraphs))))>>
         \o Slices(paragraphs, i + n, n)

\* A faulty variant of chunk_paragraphs: a short last run left out.
chunk_paragraphs_whole(paragraphs, chunk_size) ==
    LET n == normalized_size(chunk_size)
    IN  Slices(SubSeq(paragraphs, 1, (Len(paragraphs) \div n) * n), 0, n)

\* for i in range(0, len(paragraphs), normalized_size)
chunk_paragraphs(paragraphs, chunk_size) ==
    Slices(paragraphs, 0, normalized_size(chunk_size))

rebuild_chunks_from_existing(chunks, new_chunk_size) ==
    chunk_paragraphs(Split(Join(chunks)), new_chunk_size)

\* The paragraphs of a chunk as the re-chunker reads them back.
ParagraphsOf(chunks) == Split(Join(chunks))

----------------------------------------------------------------------------
(* reading.py: ChannelBookState, as create_reading_thread builds it. *)

ChannelBookState(chunks, chunk_size) ==
    [chunks |-> chunks, index |-> 0, chunk_size |-> chunk_size,
     auto_post_time |-> None, auto_active |-> FALSE,
     last_auto_post_date |-> None, latest_message_id |-> None,
     joined_users |-> {}, latest_reactors |-> {}, completed |-> FALSE]

\* The texts the segmenter hands over: 0..MaxParas paragraphs of prose, none
\* empty and none holding a newline (split_into_paragraphs normalises
\* whitespace and drops short spans).
Paragraphs(n) == [i \in 1..n |-> <<Prose[i]>>]

\* format_chunk_messages returns one message or more, by the length of the
\* chunk's text; lengths are not modelled, so the count is an input.
RenderCounts == 1..MaxSegs

\* A send raises after `budget` more sends have succeeded; None: never.
\* Budgets(k): the runs where one of the first k sends raises, or none does.
Budgets(k) == {None} \cup (0..(k - 1))
CanSend(budget, k) == budget = None \/ budget >= k
Spend(budget, k) == IF budget = None THEN None ELSE budget - k

Io(next, budget) == [next |-> next, budget |-> budget]

----------------------------------------------------------------------------
(* bot.py: the delivery engine.  Each operator returns the session after   *)
(* the call, res ("msg": a message was returned, "none": None was          *)
(* returned, "raise": a send raised), the io state, the chunk indexes      *)
(* delivered (log), the id of the last message of the last delivery (last) *)
(* and the number of sends that succeeded (sends).                         *)

\* Faulty variants of recorded: the reactors kept; the index moved.
recorded_keeps(data, chunk_index, id) ==
    [data EXCEPT !.latest_message_id = id]

recorded_moves(data, chunk_index, id) ==
    [data EXCEPT !.latest_message_id = id, !.latest_reactors = {},
                 !.index = chunk_index]

\* What deliver_chunk records once every message of the chunk is sent.
recorded(data, chunk_index, id) ==
    [data EXCEPT !.latest_message_id = id, !.latest_reactors = {}]

deliver_chunk(data, chunk_index, segs, io) ==
    IF chunk_index < 0 \/ chunk_index >= Len(data.chunks)
    THEN [data |-> data, res |-> "none", io |-> io,
          log |-> <<>>, last |-> None, sends |-> 0]
    ELSE IF ~CanSend(io.budget, segs)
    THEN \* channel.send raised at message io.budget + 1: nothing recorded
         [data |-> data, res |-> "raise",
          io |-> Io(io.next + io.budget, 0),
          log |-> <<>>, last |-> None, sends |-> io.budget]
    ELSE [data |-> recorded(data, chunk_index, io.next + segs - 1),
          res |-> "msg",
          io |-> Io(io.next + segs, Spend(io.budget, segs)),
          log |-> <<chunk_index>>, last |-> io.next + segs - 1, sends |-> segs]

\* send_next_chunk below its test of data.completed.
advance(data, segs, io) ==
    IF data.index >= Len(data.chunks)
    THEN LET done == [data EXCEPT !.completed = TRUE,
                                  !.latest_message_id = None,
                                  !.latest_reactors = {}]
         IN  \* the "All chunks sent!" notice is no chunk message
             IF CanSend(io.budget, 1)
             THEN [data |-> done, res |-> "none",
                   io |-> Io(io.next, Spend(io.budget, 1)),
                   log |-> <<>>, last |-> None, sends |-> 1]
             ELSE [data |-> done, res |-> "raise", io |-> io,
                   log |-> <<>>, last |-> None, sends |-> 0]
    ELSE LET r == deliver_chunk(data, data.index, segs, io)
         IN  IF r.res = "raise" THEN r
             ELSE [r EXCEPT !.data =
                      [r.data EXCEPT !.index = data.index + 1,
                                     !.completed = (data.index + 1 >= Len(data.chunks))]]

\* A faulty variant of send_next_chunk: the index left where it was.
send_next_chunk_stays(data, segs, io) ==
    IF data.completed
    THEN [data |-> data, res |-> "none", io |-> io,
          log |-> <<>>, last |-> None, sends |-> 0]
    ELSE deliver_chunk(data, data.index, segs, io)

\* A faulty variant of send_next_chunk: data.completed not tested.
send_next_chunk_untested(data, segs, io) == advance(data, segs, io)

send_next_chunk(data, segs, io) ==
    IF data.completed
    THEN [data |-> data, res |-> "none", io |-> io,
          log |-> <<>>, last |-> None, sends |-> 0]
    ELSE advance(data, segs, io)

RECURSIVE BatchLoop(_, _, _, _)
\* for _ in range(batch_size): send_next_chunk; stop at the first None
BatchLoop(acc, left, segs, sent) ==
    IF left <= 0 THEN [acc EXCEPT !.res = "ok"] @@ [sent |-> sent]
    ELSE LET r == send_next_chunk(acc.data, segs, acc.io)
             nxt == [data |-> r.data, res |-> r.res, io |-> r.io,
                     log |-> acc.log \o r.log,
                     last |-> IF r.last = None THEN acc.last ELSE r.last,
                     sends |-> acc.sends + r.sends]
         IN  IF r.res = "raise" THEN nxt @@ [sent |-> sent]
             ELSE IF r.res = "none" THEN [nxt EXCEPT !.res = "ok"] @@ [sent |-> sent]
             ELSE BatchLoop(nxt, left - 1, segs, sent + 1)

\* A faulty variant of send_chunk_batch: the loop left after one round.
send_chunk_batch_once(data, batch_size, segs, io) ==
    BatchLoop([data |-> data, res |-> "ok", io |-> io,
               log |-> <<>>, last |-> None, sends |-> 0],
              Min(1, batch_size), segs, 0)

send_chunk_batch(data, batch_size, segs, io) ==
    BatchLoop([data |-> data, res |-> "ok", io |-> io,
               log |-> <<>>, last |-> None, sends |-> 0],
              batch_size, segs, 0)

----------------------------------------------------------------------------
(* Observation of a run: ev describes the handler that ran last (op "cmd"  *)
(* for the commands that neither send a chunk nor re-chunk; arg the number *)
(* given to /jump, /setchunksize or send_chunk_batch, or the message       *)
(* reacted to; sent what send_chunk_batch returned), hist what a channel   *)
(* has seen.                                                               *)
(* Neither is read by any handler.                                         *)

Ev(op, c) ==
    [op |-> op, ch |-> c, user |-> "", arg |-> None, trig |-> FALSE,
     ignored |-> FALSE, lost |-> FALSE, log |-> <<>>, last |-> None, sends |-> 0,
     sent |-> 0, raised |-> FALSE]

\* The observation of a handler on channel c whose delivery returned r.
EvOf(op, c, r) ==
    [Ev(op, c) EXCEPT !.log = r.log, !.last = r.last, !.sends = r.sends,
                      !.raised = (r.res = "raise")]

ChunkIndexes == 0..(MaxParas - 1)

\* on: whether the run is being recorded (set by the initial state).
Hist(on) ==
    [on |-> on,
     fireDate |-> None,     \* date of the last scheduler fire
     fixed |-> FALSE,       \* auto_post_time unchanged since that fire
     postsDate |-> None,    \* date of the last scheduled post
     posts |-> 0,           \* scheduled posts on postsDate (counted to 2)
     started |-> None,      \* date of the last /start that found no time
                            \* configured; None once /settime has run
     retimed |-> None,      \* date of the last /settime on the active
                            \* session, with no /start since
     slot |-> "none",       \* the time it gave: "elapsed", "upcoming", or
                            \* "fired" once the scheduler has been through
     adv |-> [i \in ChunkIndexes |-> 0]]   \* advances of chunk i (counted to 2)

RECURSIVE Advanced(_, _)
\* adv after the advances of the chunks of log
Advanced(adv, log) ==
    IF Len(log) = 0 THEN adv
    ELSE Advanced([adv EXCEPT ![Head(log)] = Min(2, @ + 1)], Tail(log))

HistAdvanced(h, log) ==
    IF ~h.on THEN h ELSE [h EXCEPT !.adv = Advanced(h.adv, log)]

HistPosted(h, date, posted) ==
    IF ~h.on THEN h
    ELSE [h EXCEPT !.fireDate = date, !.fixed = TRUE,
                   !.slot = IF @ = "upcoming" THEN "fired" ELSE @,
                   !.postsDate = IF posted THEN date ELSE @,
                   !.posts = IF ~posted THEN @
                             ELSE IF h.postsDate = date THEN Min(2, @ + 1) ELSE 1]

HistTime(h, old, new) ==
    IF ~h.on THEN h ELSE [h EXCEPT !.fixed = @ /\ (old = new)]

\* fresh: /start has found no time configured (date: today), or /settime
\* has run (date: None).
HistStarted(h, fresh, date) ==
    IF ~h.on \/ ~fresh THEN h ELSE [h EXCEPT !.started = date]

HistRetimed(h, date, slot) ==
    IF ~h.on THEN h ELSE [h EXCEPT !.retimed = date, !.slot = slot]

\* A re-chunk replaces the chunk list: the advances are counted afresh.
HistRechunked(h) ==
    IF ~h.on THEN h ELSE [h EXCEPT !.adv = [i \in ChunkIndexes |-> 0]]

Idle == [pc |-> "idle", P |-> <<>>, k |-> 0, built |-> <<>>, paras |-> <<>>, rebuilt |-> <<>>]

Sessions == DOMAIN books
Room(io) == io.next <= MaxMsgs + 1

----------------------------------------------------------------------------
(* bot.py: the handlers, each run from its start to its end. *)

\* /load, /loadfile -> create_reading_thread.  Thread ids grow with time.
create_reading_thread(c, n) ==
    /\ c \notin Sessions
    /\ \A d \in Sessions : d < c
    /\ books' = (c :> ChannelBookState(
                        chunk_paragraphs(Paragraphs(n), DEFAULT_CHUNK_SIZE),
                        DEFAULT_CHUNK_SIZE)) @@ books
    /\ ev' = Ev("cmd", 0)
    /\ UNCHANGED <<now, nextMsgId, loopRunning, tasks, hist, cb>>

\* A faulty variant of kept_index: the index not clamped.
kept_index_unclamped(previous_index, chunks) == previous_index

\* data.index = min(previous_index, len(chunks))
kept_index(previous_index, chunks) == Min(previous_index, Len(chunks))

\* /setchunksize
setChunkSize(c, size) ==
    /\ c \in Sessions
    /\ LET data == books[c]
           normalized == normalized_size(size)
           chunks == rebuild_chunks_from_existing(data.chunks, normalized)
           index == kept_index(data.index, chunks)
       IN  books' = [books EXCEPT ![c] =
                        [data EXCEPT !.chunk_size = normalized,
                                     !.chunks = chunks,
                                     !.index = index,
                                     !.completed = (index >= Len(chunks))]]
    /\ hist' = [hist EXCEPT ![c] = HistRechunked(@)]
    /\ ev' = [Ev("setchunksize", c) EXCEPT !.arg = size]
    /\ UNCHANGED <<now, nextMsgId, loopRunning, tasks, cb>>

\* A faulty variant of Elapsed: the current minute taken as yet to come.
Elapsed_before(t) == t < now.minute

\* scheduled_today <= now, at the minute's resolution
Elapsed(t) == t <= now.minute

\* A faulty variant of first_run: today's slot left open.
first_run_today(data) == None

\* The last_auto_post_date /start gives a session with no time configured.
first_run(data) == now.date

\* /start
start(c) ==
    /\ c \in Sessions
    /\ LET data == books[c]
           time == IF data.auto_post_time = None THEN now.minute
                   ELSE data.auto_post_time
           stamp == IF data.auto_post_time = None THEN first_run(data)
                    ELSE IF Elapsed(data.auto_post_time) THEN now.date ELSE None
       IN  /\ books' = [books EXCEPT ![c] =
                          [data EXCEPT !.auto_active = TRUE,
                                       !.auto_post_time = time,
                                       !.last_auto_post_date = stamp]]
           /\ hist' = [hist EXCEPT ![c] =
                         HistRetimed(
                           HistStarted(HistTime(@, data.auto_post_time, time),
                                       data.auto_post_time = None, now.date),
                           None, "none")]
    /\ ev' = Ev("cmd", 0)
    /\ UNCHANGED <<now, nextMsgId, loopRunning, tasks, cb>>

\* /settime with a time strptime accepts (a malformed one changes nothing)
set_time(c, parsed_time) ==
    /\ c \in Sessions
    /\ LET data == books[c]
           stamp == IF ~data.auto_active THEN data.last_auto_post_date
                    ELSE IF Elapsed(parsed_time) THEN now.date ELSE None
       IN  /\ books' = [books EXCEPT ![c] =
                          [data EXCEPT !.auto_post_time = parsed_time,
                                       !.last_auto_post_date = stamp]]
           /\ hist' = [hist EXCEPT ![c] =
                         LET h == HistStarted(HistTime(@, data.auto_post_time, parsed_time),
                                              TRUE, None)
                         IN  IF ~data.auto_active THEN h
                             ELSE HistRetimed(h, now.date,
                                              IF parsed_time > now.minute
                                              THEN "upcoming" ELSE "elapsed")]
    /\ ev' = Ev("cmd", 0)
    /\ UNCHANGED <<now, nextMsgId, loopRunning, tasks, cb>>

\* A faulty variant of enrolled: a member who joins again is enrolled anew.
enrolled_anew(data, user_id) ==
    [data EXCEPT !.joined_users = @ \cup {user_id},
                 !.latest_reactors = @ \ {user_id}]

\* The session after /join by user_id.
enrolled(data, user_id) ==
    IF user_id \in data.joined_users THEN data
    ELSE [data EXCEPT !.joined_users = @ \cup {user_id},
                      !.latest_reactors = @ \ {user_id}]

\* /join
join_command(c, user_id) ==
    /\ c \in Sessions
    /\ books' = [books EXCEPT ![c] = enrolled(@, user_id)]
    /\ ev' = [Ev("join", c) EXCEPT !.user = user_id]
    /\ UNCHANGED <<now, nextMsgId, loopRunning, tasks, hist, cb>>

\* A faulty variant of landed: the index left on the chunk delivered.
landed_short(data, chunk, total_chunks) ==
    [data EXCEPT !.completed = (chunk >= total_chunks)]

\* data.index = chunk; data.completed = data.index >= total_chunks
landed(data, chunk, total_chunks) ==
    [data EXCEPT !.index = chunk, !.completed = (chunk >= total_chunks)]

\* /jump
jump_command(c, chunk) ==
    /\ c \in Sessions
    /\ LET data == books[c]
           total_chunks == Len(data.chunks)
       IN  IF total_chunks = 0 \/ chunk < 1 \/ chunk > total_chunks
           THEN /\ ev' = [Ev("jump", c) EXCEPT !.ignored = TRUE, !.arg = chunk]
                /\ UNCHANGED <<books, nextMsgId>>
           ELSE \E segs \in RenderCounts : \E budget \in Budgets(segs) :
                LET moved == [data EXCEPT !.index = Max(0, chunk - 1),
                                          !.completed = FALSE]
                    r == deliver_chunk(moved, moved.index, segs, Io(nextMsgId, budget))
                IN  /\ Room(r.io)
                    /\ books' = [books EXCEPT ![c] =
                                   IF r.res = "msg"
                                   THEN landed(r.data, chunk, total_chunks)
                                   ELSE r.data]
                    /\ nextMsgId' = r.io.next
                    /\ ev' = [EvOf("jump", c, r) EXCEPT !.arg = chunk]
    /\ UNCHANGED <<now, loopRunning, tasks, hist, cb>>

\* A faulty variant of last_chunk_index: the chunk the index stands on.
last_chunk_index_ahead(data) == data.index

\* The chunk /again sends once more.
last_chunk_index(data) == Min(data.index, Len(data.chunks)) - 1

\* /again
again_command(c) ==
    /\ c \in Sessions
    /\ LET data == books[c]
       IN  IF Len(data.chunks) = 0 \/ data.index = 0
           THEN /\ ev' = [Ev("again", c) EXCEPT !.ignored = TRUE]
                /\ UNCHANGED <<books, nextMsgId>>
           ELSE \E segs \in RenderCounts : \E budget \in Budgets(segs) :
                LET r == deliver_chunk(data, last_chunk_index(data), segs,
                                       Io(nextMsgId, budget))
                IN  /\ Room(r.io)
                    /\ books' = [books EXCEPT ![c] = r.data]
                    /\ nextMsgId' = r.io.next
                    /\ ev' = EvOf("again", c, r)
    /\ UNCHANGED <<now, loopRunning, tasks, hist, cb>>

\* /more: send_chunk_batch(channel, data.chunk_size)
more(c) ==
    /\ c \in Sessions
    /\ \E segs \in RenderCounts : \E budget \in Budgets(2 * segs) :
       LET data == books[c]
           r == send_chunk_batch(data, data.chunk_size, segs, Io(nextMsgId, budget))
       IN  /\ Room(r.io)
           /\ books' = [books EXCEPT ![c] = r.data]
           /\ nextMsgId' = r.io.next
           /\ hist' = [hist EXCEPT ![c] = HistAdvanced(@, r.log)]
           /\ ev' = [EvOf("more", c, r) EXCEPT !.sent = r.sent]
    /\ UNCHANGED <<now, loopRunning, tasks, cb>>

\* send_chunk_batch(channel, batch_size) called on the session of thread c.
batch(c, batch_size) ==
    /\ c \in Sessions
    /\ \E segs \in RenderCounts : \E budget \in Budgets(2 * segs) :
       LET r == send_chunk_batch(books[c], batch_size, segs, Io(nextMsgId, budget))
       IN  /\ Room(r.io)
           /\ books' = [books EXCEPT ![c] = r.data]
           /\ nextMsgId' = r.io.next
           /\ hist' = [hist EXCEPT ![c] = HistAdvanced(@, r.log)]
           /\ ev' = [EvOf("batch", c, r) EXCEPT !.arg = batch_size, !.sent = r.sent]
    /\ UNCHANGED <<now, loopRunning, tasks, cb>>

\* A faulty variant of Due: the date of the last post not looked at.
Due_any_date(data) ==
    /\ data.auto_active
    /\ data.auto_post_time # None
    /\ ~data.completed
    /\ data.auto_post_time = now.minute

\* The test of check_scheduled_posts for one session.
Due(data) ==
    /\ data.auto_active
    /\ data.auto_post_time # None
    /\ ~data.completed
    /\ data.last_auto_post_date # now.date
    /\ data.auto_post_time = now.minute

RECURSIVE TickLoop(_, _, _, _)
\* for channel_id, data in books.items(): in the order the sessions were made.
\* acc: the books, the hist, the io state and the observation so far.
TickLoop(acc, todo, lost, segs) ==
    IF todo = {} \/ acc.res = "raise" THEN acc
    ELSE LET c == CHOOSE x \in todo : \A y \in todo : x <= y
             data == acc.books[c]
             rest == todo \ {c}
         IN  IF ~Due(data) \/ c \in lost THEN TickLoop(acc, rest, lost, segs)
             ELSE LET r == send_next_chunk(data, segs, acc.io)
                      stamped == IF r.res = "raise" THEN r.data
                                 ELSE [r.data EXCEPT !.last_auto_post_date = now.date]
                      h == HistAdvanced(acc.hist[c], r.log)
                  IN  TickLoop(
                        [books |-> [acc.books EXCEPT ![c] = stamped],
                         hist |-> [acc.hist EXCEPT ![c] =
                                     IF r.res = "raise" THEN h
                                     ELSE HistPosted(h, now.date, r.res = "msg")],
                         io |-> r.io, res |-> r.res,
                         log |-> acc.log \o r.log,
                         last |-> IF r.last = None THEN acc.last ELSE r.last,
                         sends |-> acc.sends + r.sends,
                         trig |-> TRUE,
                         ch |-> IF r.log = <<>> THEN acc.ch ELSE c],
                        rest, lost, segs)

\* One iteration of the tasks.loop.  lost: the channels neither get_channel
\* nor fetch_channel returns.  A send that raises ends the iteration; by the
\* kind of exception the loop retries later (retry) or stops.
check_scheduled_posts ==
    /\ loopRunning
    /\ \E lost \in SUBSET {c \in Sessions : Due(books[c])} :
       \E segs \in IF \E c \in Sessions \ lost : Due(books[c]) THEN RenderCounts ELSE {1} :
       \E budget \in IF \E c \in Sessions \ lost : Due(books[c]) THEN Budgets(segs) ELSE {None} :
       LET r == TickLoop([books |-> books, hist |-> hist,
                          io |-> Io(nextMsgId, budget), res |-> "none",
                          log |-> <<>>, last |-> None, sends |-> 0,
                          trig |-> FALSE, ch |-> 0],
                         Sessions, lost, segs)
       IN  /\ Room(r.io)
           /\ books' = r.books
           /\ hist' = r.hist
           /\ nextMsgId' = r.io.next
           /\ \E retry \in IF r.res = "raise" THEN BOOLEAN ELSE {TRUE} :
                 loopRunning' = retry
           /\ ev' = [Ev("tick", r.ch) EXCEPT !.log = r.log, !.last = r.last,
                                          !.sends = r.sends, !.trig = r.trig,
                                          !.lost = (lost # {}),
                                          !.raised = (r.res = "raise")]
    /\ UNCHANGED <<now, tasks, cb>>

\* on_ready starts the loop when it is not running.
on_ready ==
    /\ ~loopRunning
    /\ loopRunning' = TRUE
    /\ ev' = Ev("cmd", 0)
    /\ UNCHANGED <<books, now, nextMsgId, tasks, hist, cb>>

\* The filters of on_raw_reaction_add (a channel without a session is
\* filtered too).  Bots cannot /join, so a bot member is no joined user.
\* A faulty variant of Ignored: the message reacted to not looked at.
Ignored_any_message(data, user_id, message_id) ==
    \/ user_id = SelfId
    \/ data.completed
    \/ user_id \notin data.joined_users

\* A faulty variant of Ignored: the roster not looked at.
Ignored_any_user(data, user_id, message_id) ==
    \/ user_id = SelfId
    \/ data.completed
    \/ data.latest_message_id # message_id

Ignored(data, user_id, message_id) ==
    \/ user_id = SelfId
    \/ data.completed
    \/ data.latest_message_id # message_id
    \/ user_id \notin data.joined_users

\* A faulty variant of Consensus: one reactor is enough.
Consensus_of_one(data) ==
    data.joined_users # {} /\ data.latest_reactors # {}

\* data.joined_users and data.joined_users.issubset(data.latest_reactors)
Consensus(data) ==
    data.joined_users # {} /\ data.joined_users \subseteq data.latest_reactors

\* The messages a reaction can be put on: the latest chunk message, the last
\* message sent, and 0 for any other message of the thread.
Reactable(data) == {0, nextMsgId - 1} \cup ({data.latest_message_id} \ {None})

\* on_raw_reaction_add.  chanOk: get_channel or fetch_channel returns the thread.
on_raw_reaction_add(c, user_id, message_id) ==
    /\ c \in Sessions
    /\ message_id \in Reactable(books[c])
    /\ LET data == books[c]
           added == [data EXCEPT !.latest_reactors = @ \cup {user_id}]
       IN  IF Ignored(data, user_id, message_id)
           THEN /\ ev' = [Ev("ack", c) EXCEPT !.ignored = TRUE, !.user = user_id, !.arg = message_id]
                /\ UNCHANGED <<books, nextMsgId, hist>>
           ELSE IF ~Consensus(added)
           THEN /\ books' = [books EXCEPT ![c] = added]
                /\ ev' = [Ev("ack", c) EXCEPT !.user = user_id, !.arg = message_id]
                /\ UNCHANGED <<nextMsgId, hist>>
           ELSE \E chanOk \in BOOLEAN :
                IF ~chanOk
                THEN /\ books' = [books EXCEPT ![c] = added]
                     /\ ev' = [Ev("ack", c) EXCEPT !.user = user_id, !.arg = message_id, !.lost = TRUE]
                     /\ UNCHANGED <<nextMsgId, hist>>
                ELSE \E segs \in RenderCounts : \E budget \in Budgets(2 * segs) :
                     LET r == send_chunk_batch(added, added.chunk_size, segs,
                                               Io(nextMsgId, budget))
                     IN  /\ Room(r.io)
                         /\ books' = [books EXCEPT ![c] = r.data]
                         /\ nextMsgId' = r.io.next
                         /\ hist' = [hist EXCEPT ![c] = HistAdvanced(@, r.log)]
                         /\ ev' = [EvOf("ack", c, r) EXCEPT !.user = user_id, !.arg = message_id,
                                                            !.trig = TRUE, !.sent = r.sent]
    /\ UNCHANGED <<now, loopRunning, tasks, cb>>

\* Time passes: the next minute, or the first minute of the next date.
Clock ==
    /\ now.minute < MaxSlot \/ now.date < MaxDay
    /\ now' = IF now.minute < MaxSlot THEN [now EXCEPT !.minute = @ + 1]
              ELSE [date |-> now.date + 1, minute |-> 0]
    /\ UNCHANGED <<books, nextMsgId, loopRunning, tasks, ev, hist, cb>>

----------------------------------------------------------------------------
(* The handlers run one at a time. *)

SizeInputs == {0, 2, MAX_CHUNK_SIZE + 1}
Slots == 0..MaxSlot

\* The state after construction, on date `date`, hist recording or not.
InitAt(date, on) ==
    /\ books = <<>>
    /\ now = [date |-> date, minute |-> 0]
    /\ nextMsgId = 1
    /\ loopRunning = FALSE
    /\ tasks = <<>>
    /\ ev = Ev("init", 0)
    /\ hist = [c \in Threads |-> Hist(on)]
    /\ cb = Idle

\* Every handler, with one reader, on the last date.
Init == InitAt(MaxDay, FALSE)

\* The texts: none, and the longest, which the sizes 1, 2 and 3 (the
\* default) cut into three chunks, two and one.  The reactions: those of the
\* reader, on any message.
Next ==
    \/ \E c \in Channels, n \in {0, MaxParas} : create_reading_thread(c, n)
    \/ \E c \in Channels, size \in {0, 2} : setChunkSize(c, size)
    \/ \E c \in Channels : start(c)
    \/ \E c \in Channels, t \in Slots : set_time(c, t)
    \/ \E c \in Channels : join_command(c, "A")
    \/ \E c \in Channels, n \in 0..(MaxParas + 1) : jump_command(c, n)
    \/ \E c \in Channels : again_command(c)
    \/ \E c \in Channels : more(c)
    \/ check_scheduled_posts
    \/ on_ready
    \/ \E c \in Channels, m \in 0..MaxMsgs : on_raw_reaction_add(c, "A", m)
    \/ Clock

Spec == Init /\ [][Next]_vars

----------------------------------------------------------------------------
(* The scheduler over the dates 1..MaxDay, recorded in hist. *)

InitSched == InitAt(1, TRUE)

NextSched ==
    \/ \E c \in Channels, n \in 1..MaxParas : create_reading_thread(c, n)
    \/ \E c \in Channels : setChunkSize(c, 1)
    \/ \E c \in Channels : start(c)
    \/ \E c \in Channels, t \in Slots : set_time(c, t)
    \/ \E c \in Channels : more(c)
    \/ check_scheduled_posts
    \/ on_ready
    \/ Clock

SpecSched == InitSched /\ [][NextSched]_vars

----------------------------------------------------------------------------
(* The consensus gate with the readers A and B. *)

InitGate == InitAt(1, FALSE)

NextGate ==
    \/ \E c \in Channels, n \in 0..MaxParas : create_reading_thread(c, n)
    \/ \E c \in Channels, size \in SizeInputs : setChunkSize(c, size)
    \/ \E c \in Channels, u \in Users : join_command(c, u)
    \/ \E c \in Channels : again_command(c)
    \/ \E c \in Channels : more(c)
    \/ \E c \in Channels, u \in Actors, m \in 0..MaxMsgs : on_raw_reaction_add(c, u, m)

SpecGate == InitGate /\ [][NextGate]_vars

----------------------------------------------------------------------------
(* A session only ever advanced: by /more, by the scheduler and by the     *)
(* reactions of its reader, every send succeeding.  The texts are long     *)
(* enough for several chunks of the default size.                          *)

LongTexts == {0, 1, MaxParas + 1, 2 * MaxParas}

InitOrder == InitAt(1, TRUE)

NextOrder ==
    \/ \E c \in Channels, n \in LongTexts : create_reading_thread(c, n)
    \/ \E c \in Channels : start(c)
    \/ \E c \in Channels, t \in Slots : set_time(c, t)
    \/ \E c \in Channels : join_command(c, "A")
    \/ \E c \in Channels : more(c) /\ ~ev'.raised
    \/ check_scheduled_posts /\ ~ev'.raised
    \/ on_ready
    \/ \E c \in Channels, m \in 1..MaxMsgs :
          on_raw_reaction_add(c, "A", m) /\ ~ev'.raised
    \/ Clock

SpecOrder == InitOrder /\ [][NextOrder]_vars

----------------------------------------------------------------------------
(* The readers reacting until the text is through: no send raises, a chunk *)
(* is one message, and a joined reader who has not reacted to the latest   *)
(* chunk message does so in the end.                                       *)

\* Reader user_id reacts to the latest chunk message, not having done so yet.
Acknowledges(c, user_id) ==
    /\ c \in Sessions
    /\ user_id \in books[c].joined_users
    /\ user_id \notin books[c].latest_reactors
    /\ books[c].latest_message_id # None
    /\ on_raw_reaction_add(c, user_id, books[c].latest_message_id)
    /\ ~ev'.raised /\ ev'.sends = Len(ev'.log)

InitLive == InitAt(1, FALSE)

NextLive ==
    \/ \E c \in Channels, n \in 1..MaxParas : create_reading_thread(c, n)
    \/ \E c \in Channels, size \in {0, 2} : setChunkSize(c, size)
    \/ \E c \in Channels, u \in Users : join_command(c, u)
    \/ \E c \in Channels : more(c) /\ ~ev'.raised /\ ev'.sends = Len(ev'.log)
    \/ \E c \in Channels, u \in Users : Acknowledges(c, u)

SpecLive ==
    /\ InitLive /\ [][NextLive]_vars
    /\ \A c \in Channels, u \in Users : WF_vars(Acknowledges(c, u))

----------------------------------------------------------------------------
(* send_chunk_batch on its own, with batch sizes of every sign. *)

BatchSizes == {-1, 0, 1, 2, 3}

InitBatch == InitAt(1, FALSE)

NextBatch ==
    \/ \E c \in Channels, n \in 0..MaxParas : create_reading_thread(c, n)
    \/ \E c \in Channels, size \in SizeInputs : setChunkSize(c, size)
    \/ \E c \in Channels, batch_size \in BatchSizes : batch(c, batch_size)

SpecBatch == InitBatch /\ [][NextBatch]_vars

----------------------------------------------------------------------------
(* The scheduler with two threads, both started in the same minute. *)

InitTick == InitAt(1, FALSE)

NextTick ==
    \/ \E c \in Threads, n \in 0..2 : create_reading_thread(c, n)
    \/ \E c \in Threads : start(c)
    \/ check_scheduled_posts
    \/ on_ready
    \/ Clock

SpecTick == InitTick /\ [][NextTick]_vars

----------------------------------------------------------------------------
(* The handlers as asyncio runs them: a handler runs until it awaits, and  *)
(* any other handler may run before it is resumed.  tasks holds the        *)
(* handlers suspended in /more, send_next_chunk or deliver_chunk:          *)
(*   pc "defer"   at interaction.response.defer() of /more,                *)
(*   pc "send"    at channel.send of deliver_chunk, chunk being the        *)
(*                chunk_index it was called with,                          *)
(*   pc "notice"  at channel.send of the "All chunks sent!" notice;        *)
(* left is what is left of range(batch_size) (1 for the scheduler, which   *)
(* calls send_next_chunk once) and date the scheduler's current_date.      *)
(* Every chunk is one message, every send succeeds and every thread is in  *)
(* the cache.                                                              *)

Task(op, c, left, date) ==
    [op |-> op, ch |-> c, pc |-> "defer", left |-> left,
     chunk |-> None, date |-> date]

\* What the caller of send_next_chunk does once it has returned for good:
\* the scheduler stamps the date, the others change nothing.
Returned(data, t) ==
    IF t.op = "tick" THEN [data EXCEPT !.last_auto_post_date = t.date] ELSE data

\* Task t from the top of the loop of send_chunk_batch to its next await
\* (or its end): send_next_chunk down to channel.send.
Entered(data, t) ==
    IF t.left <= 0 \/ data.completed
    THEN [data |-> Returned(data, t), t |-> [t EXCEPT !.pc = "done"]]
    ELSE IF data.index >= Len(data.chunks)
    THEN [data |-> [data EXCEPT !.completed = TRUE,
                                !.latest_message_id = None,
                                !.latest_reactors = {}],
          t |-> [t EXCEPT !.pc = "notice"]]
    ELSE [data |-> data,
          t |-> [t EXCEPT !.pc = "send", !.chunk = data.index]]

\* tasks with task i replaced by t, or taken out when t has ended
Kept(i, t) ==
    IF t.pc = "done"
    THEN SubSeq(tasks, 1, i - 1) \o SubSeq(tasks, i + 1, Len(tasks))
    ELSE [tasks EXCEPT ![i] = t]

\* /more up to interaction.response.defer()
more_begin(c) ==
    /\ c \in Sessions
    /\ Len(tasks) < MaxTasks
    /\ tasks' = Append(tasks, Task("more", c, books[c].chunk_size, None))
    /\ ev' = Ev("cmd", 0)
    /\ UNCHANGED <<books, now, nextMsgId, loopRunning, hist, cb>>

\* on_raw_reaction_add up to its first await
ack_begin(c, user_id, message_id) ==
    /\ c \in Sessions
    /\ Len(tasks) < MaxTasks
    /\ message_id \in Reactable(books[c])
    /\ LET data == books[c]
           added == [data EXCEPT !.latest_reactors = @ \cup {user_id}]
       IN  IF Ignored(data, user_id, message_id)
           THEN /\ ev' = [Ev("ack", c) EXCEPT !.ignored = TRUE, !.user = user_id, !.arg = message_id]
                /\ UNCHANGED <<books, tasks>>
           ELSE IF ~Consensus(added)
           THEN /\ books' = [books EXCEPT ![c] = added]
                /\ ev' = [Ev("ack", c) EXCEPT !.user = user_id, !.arg = message_id]
                /\ UNCHANGED tasks
           ELSE LET r == Entered(added, Task("ack", c, added.chunk_size, None))
                IN  /\ books' = [books EXCEPT ![c] = r.data]
                    /\ tasks' = IF r.t.pc = "done" THEN tasks ELSE Append(tasks, r.t)
                    /\ ev' = [Ev("ack", c) EXCEPT !.user = user_id, !.arg = message_id, !.trig = TRUE]
    /\ UNCHANGED <<now, nextMsgId, loopRunning, hist, cb>>

\* One iteration of check_scheduled_posts up to its first await.  The loop
\* starts no iteration while one is running.  (One thread: the body of the
\* for loop runs for one session.)
tick_begin(c) ==
    /\ loopRunning
    /\ c \in Sessions
    /\ Len(tasks) < MaxTasks
    /\ \A i \in DOMAIN tasks : tasks[i].op # "tick"
    /\ IF ~Due(books[c])
       THEN /\ ev' = Ev("tick", 0)
            /\ UNCHANGED <<books, tasks>>
       ELSE LET r == Entered(books[c], Task("tick", c, 1, now.date))
            IN  /\ books' = [books EXCEPT ![c] = r.data]
                /\ tasks' = IF r.t.pc = "done" THEN tasks ELSE Append(tasks, r.t)
                /\ ev' = [Ev("tick", c) EXCEPT !.trig = TRUE]
    /\ UNCHANGED <<now, nextMsgId, loopRunning, hist, cb>>

\* /more resumed after defer(): send_chunk_batch starts.
resume_defer(i) ==
    /\ i \in DOMAIN tasks
    /\ tasks[i].pc = "defer"
    /\ LET t == tasks[i]
           r == Entered(books[t.ch], t)
       IN  /\ books' = [books EXCEPT ![t.ch] = r.data]
           /\ tasks' = Kept(i, r.t)
           /\ ev' = Ev(t.op, t.ch)
    /\ UNCHANGED <<now, nextMsgId, loopRunning, hist, cb>>

\* deliver_chunk resumed after channel.send: the record, then index += 1 of
\* send_next_chunk and the next round of the caller.
resume_send(i) ==
    /\ i \in DOMAIN tasks
    /\ tasks[i].pc = "send"
    /\ nextMsgId <= MaxMsgs
    /\ nextMsgId' = nextMsgId + 1
    /\ LET t == tasks[i]
           c == t.ch
           got == recorded(books[c], t.chunk, nextMsgId)
           moved == [got EXCEPT !.index = @ + 1,
                                !.completed = (got.index + 1 >= Len(got.chunks))]
           r == Entered(moved, [t EXCEPT !.left = @ - 1])
       IN  /\ books' = [books EXCEPT ![c] = r.data]
           /\ tasks' = Kept(i, r.t)
           /\ hist' = [hist EXCEPT ![c] = HistAdvanced(@, <<t.chunk>>)]
           /\ ev' = [Ev(t.op, c) EXCEPT !.sends = 1, !.log = <<t.chunk>>,
                                        !.last = nextMsgId]
    /\ UNCHANGED <<now, loopRunning, cb>>

\* send_next_chunk resumed after the notice: it returns None.
resume_notice(i) ==
    /\ i \in DOMAIN tasks
    /\ tasks[i].pc = "notice"
    /\ LET t == tasks[i]
       IN  /\ books' = [books EXCEPT ![t.ch] = Returned(@, t)]
           /\ tasks' = Kept(i, [t EXCEPT !.pc = "done"])
           /\ ev' = [Ev(t.op, t.ch) EXCEPT !.sends = 1]
    /\ UNCHANGED <<now, nextMsgId, loopRunning, hist, cb>>

InitConc == InitAt(1, TRUE)

NextConc ==
    \/ \E c \in Channels, n \in 0..MaxParas : create_reading_thread(c, n)
    \/ \E c \in Channels : setChunkSize(c, 1)
    \/ \E c \in Channels : start(c)
    \/ \E c \in Channels : join_command(c, "A")
    \/ \E c \in Channels : more_begin(c)
    \/ \E c \in Channels, m \in 0..MaxMsgs : ack_begin(c, "A", m)
    \/ \E c \in Channels : tick_begin(c)
    \/ on_ready
    \/ \E i \in 1..MaxTasks : resume_defer(i)
    \/ \E i \in 1..MaxTasks : resume_send(i)
    \/ \E i \in 1..MaxTasks : resume_notice(i)
    \/ Clock

SpecConc == InitConc /\ [][NextConc]_vars

----------------------------------------------------------------------------
(* One advance at a time, with /setchunksize free to run while it is       *)
(* suspended.                                                              *)

\* /more when no handler is suspended
more_alone(c) ==
    /\ tasks = <<>>
    /\ more_begin(c)

InitRechunk == InitAt(1, FALSE)

NextRechunk ==
    \/ \E c \in Channels, n \in 1..MaxParas : create_reading_thread(c, n)
    \/ \E c \in Channels, size \in SizeInputs : setChunkSize(c, size)
    \/ \E c \in Channels : more_alone(c)
    \/ \E i \in 1..MaxTasks : resume_defer(i)
    \/ \E i \in 1..MaxTasks : resume_send(i)

SpecRechunk == InitRechunk /\ [][NextRechunk]_vars

----------------------------------------------------------------------------
(* The chunk builder on its own: build, then rebuild with the same size. *)

RECURSIVE Texts(_)
\* The texts of at most n characters over "a" and the newline.
Texts(n) ==
    IF n = 0 THEN {<<>>}
    ELSE Texts(n - 1) \cup {Append(t, ch) : t \in Texts(n - 1), ch \in {"a", NL}}

RECURSIVE TextSeqs(_)
\* The sequences of at most n such texts.
TextSeqs(n) ==
    IF n = 0 THEN {<<>>}
    ELSE TextSeqs(n - 1) \cup {Append(P, t) : P \in TextSeqs(n - 1), t \in Texts(MaxParLen)}

KInputs == {0, 1, 2, 3, MAX_CHUNK_SIZE, MAX_CHUNK_SIZE + 1}

InitChunk ==
    /\ books = <<>>
    /\ now = [date |-> 1, minute |-> 0]
    /\ nextMsgId = 1
    /\ loopRunning = FALSE
    /\ tasks = <<>>
    /\ ev = Ev("init", 0)
    /\ hist = [c \in Threads |-> Hist(FALSE)]
    /\ \E P \in TextSeqs(MaxParas), k \in KInputs :
          cb = [Idle EXCEPT !.pc = "input", !.P = P, !.k = k]

Build ==
    /\ cb.pc = "input"
    /\ cb' = [cb EXCEPT !.pc = "built", !.built = chunk_paragraphs(cb.P, cb.k)]
    /\ UNCHANGED <<books, now, nextMsgId, loopRunning, tasks, ev, hist>>

Rebuild ==
    /\ cb.pc = "built"
    /\ cb' = [cb EXCEPT !.pc = "rebuilt",
                        !.paras = ParagraphsOf(cb.built),
                        !.rebuilt = rebuild_chunks_from_existing(cb.built, cb.k)]
    /\ UNCHANGED <<books, now, nextMsgId, loopRunning, tasks, ev, hist>>

NextChunk == Build \/ Rebuild

SpecChunk == InitChunk /\ [][NextChunk]_vars

HasSep(text) == \E i \in 1..(Len(text) - 1) : text[i] = NL /\ text[i + 1] = NL

----------------------------------------------------------------------------
(* The claims. *)

\* C1: in every state reached by running the handlers one at a time, every
\* session has 0 <= index <= len(chunks).
C1_IndexInRange ==
    \A c \in Sessions : 0 <= books[c].index /\ books[c].index <= Len(books[c].chunks)

\* A re-chunk has run on a session whose index is at the end of two chunks.
C1_Witness ==
    \E c \in Sessions :
        /\ ev.op = "setchunksize" /\ ev.ch = c
        /\ Len(books[c].chunks) = 2
        /\ books[c].index = 2

\* C2: in every state, from the load on, completed is true exactly when
\* index = len(chunks).
C2_CompletedIff ==
    \A c \in Sessions : books[c].completed <=> (books[c].index = Len(books[c].chunks))

\* C3: with handlers interleaving at their awaits, each chunk index of a
\* session is delivered by at most one advance.
C3_NoDoubleDelivery ==
    \A c \in Sessions : \A i \in ChunkIndexes : hist[c].adv[i] <= 1

C5_BallotReset ==
    ev.log # <<>> =>
        /\ books[ev.ch].latest_reactors = {}
        /\ books[ev.ch].latest_message_id = ev.last
        /\ ~ev.raised => books[ev.ch].latest_message_id = nextMsgId - 1

\* A reader's acknowledgment has triggered a delivery of two messages or more.
C5_Witness ==
    ev.op = "ack" /\ ev.trig /\ ev.log # <<>> /\ ev.sends >= 2

\* C6: send_next_chunk on a completed session sends nothing and changes no
\* field of the session (/more on a completed session is one such call).
C6_AdvanceWhenCompleted ==
    [][\A c \in Sessions :
         (ev'.op = "more" /\ ev'.ch = c /\ ev' # ev /\ books[c].completed)
         => /\ books'[c] = books[c]
            /\ nextMsgId' = nextMsgId
            /\ ev'.sends = 0
            /\ ~ev'.raised]_vars

\* /more has run on a completed session that has a latest message.
C6_Witness ==
    \E c \in Sessions :
        /\ ev.op = "more" /\ ev.ch = c /\ ev.sends = 0 /\ ~ev.raised
        /\ books[c].completed
        /\ books[c].latest_message_id # None

\* C7: index never decreases in a step other than /jump and /setchunksize,
\* and never exceeds len(chunks).
C7_Monotone ==
    [][\A c \in Sessions :
         /\ (ev' # ev /\ ev'.op \notin {"jump", "setchunksize"})
               => books'[c].index >= books[c].index
         /\ books'[c].index <= Len(books'[c].chunks)]_vars

\* /again has re-delivered a chunk and the index is still at 2.
C7_Witness ==
    \E c \in Sessions :
        /\ ev.op = "again" /\ ev.ch = c /\ ev.log # <<>>
        /\ books[c].index = 2

\* C8: after a scheduler fire on a date, while auto_post_time stays what it
\* was, no further tick on that date delivers or moves the index.
C8_OncePerDate ==
    [][\A c \in Sessions :
         (ev'.op = "tick" /\ ev' # ev
            /\ hist[c].fireDate = now.date /\ hist[c].fixed)
         => /\ books'[c].index = books[c].index
            /\ books'[c].completed = books[c].completed
            /\ nextMsgId' = nextMsgId
            /\ ev'.sends = 0]_vars

\* A tick in the matching minute, after the fire of that date, on an active
\* session that is not completed: nothing was triggered.
C8_Witness ==
    \E c \in Sessions :
        /\ ev.op = "tick" /\ ~ev.trig
        /\ hist[c].fireDate = now.date /\ hist[c].fixed
        /\ books[c].auto_active /\ ~books[c].completed
        /\ books[c].auto_post_time = now.minute

\* C9: on every date at most one scheduled post happens, whatever /start and
\* /settime do in between.
C9_OnePostPerDate ==
    \A c \in Sessions : hist[c].posts <= 1

\* C10: rebuild(build(P, k), k) gives back the paragraphs P, grouped as
\* build(P, k), when no paragraph of P holds the separator and k is in 1..50.
C10_RoundTrip ==
    (/\ cb.pc = "rebuilt"
     /\ cb.k >= MIN_CHUNK_SIZE /\ cb.k <= MAX_CHUNK_SIZE
     /\ \A i \in 1..Len(cb.P) : ~HasSep(cb.P[i]))
    => cb.paras = cb.P /\ cb.rebuilt = cb.built

\* C11: /jump n with 1 <= n <= len(chunks), its sends succeeding, delivers
\* chunk n - 1 alone and leaves index = n and completed = (n = len(chunks)),
\* and an advance right after it starts with chunk n; with n outside
\* 1..len(chunks) it sends nothing and changes no field of the session.
C11_JumpDelivers ==
    [][\A c \in Sessions :
         /\ (ev'.op = "jump" /\ ev'.ch = c /\ ev' # ev)
            => LET n == ev'.arg
                   total == Len(books[c].chunks)
               IN  IF n >= 1 /\ n <= total
                   THEN ~ev'.raised
                        => /\ ev'.log = <<n - 1>>
                           /\ books'[c].index = n
                           /\ books'[c].completed = (n = total)
                           /\ books'[c].chunks = books[c].chunks
                   ELSE /\ books'[c] = books[c]
                        /\ nextMsgId' = nextMsgId
                        /\ ev'.sends = 0
         /\ (ev.op = "jump" /\ ev.ch = c /\ ev.log # <<>>
               /\ ev'.op = "more" /\ ev' # ev /\ ~books[c].completed)
            => /\ ev'.log # <<>> => ev'.log[1] = ev.log[1] + 1
               /\ ~ev'.raised => ev'.log # <<>>]_vars

\* /jump 2 of three chunks has delivered chunk 1 and left index = 2, the
\* session not completed.
C11_Witness ==
    \E c \in Sessions :
        /\ ev.op = "jump" /\ ev.ch = c /\ ev.arg = 2 /\ ev.log = <<1>>
        /\ Len(books[c].chunks) = 3
        /\ books[c].index = 2 /\ ~books[c].completed

\* C12 as stated: /setchunksize with a size outside 1..50 changes no field
\* of the session.
C12_OutOfRangeRejected ==
    [][\A c \in Sessions :
         (ev'.op = "setchunksize" /\ ev'.ch = c /\ ev' # ev
            /\ (ev'.arg < MIN_CHUNK_SIZE \/ ev'.arg > MAX_CHUNK_SIZE))
         => books'[c] = books[c]]_vars

\* C12 amended: /setchunksize rejects no size; a size below 1 counts as 1 and
\* a size above 50 as 50, chunk_size becomes that number, the paragraphs are
\* grouped anew by it, index is cut to the new len(chunks) and completed is
\* index >= len(chunks).
C12_OutOfRangeClamped ==
    [][\A c \in Sessions :
         (ev'.op = "setchunksize" /\ ev'.ch = c /\ ev' # ev)
         => LET k == IF ev'.arg < MIN_CHUNK_SIZE THEN MIN_CHUNK_SIZE
                     ELSE IF ev'.arg > MAX_CHUNK_SIZE THEN MAX_CHUNK_SIZE
                     ELSE ev'.arg
                old == books[c]
                new == books'[c]
            IN  /\ new.chunk_size = k
                /\ ParagraphsOf(new.chunks) = ParagraphsOf(old.chunks)
                /\ \A j \in 1..Len(new.chunks) :
                      Len(Split(new.chunks[j])) =
                         IF j < Len(new.chunks) THEN k
                         ELSE Len(ParagraphsOf(old.chunks)) - k * (j - 1)
                /\ new.index = Min(old.index, Len(new.chunks))
                /\ new.completed = (new.index >= Len(new.chunks))]_vars

\* /setchunksize 51 has run: chunk_size is 50 and the three chunks of one
\* paragraph have become one chunk.
C12_Witness ==
    \E c \in Sessions :
        /\ ev.op = "setchunksize" /\ ev.ch = c /\ ev.arg = MAX_CHUNK_SIZE + 1
        /\ books[c].chunk_size = MAX_CHUNK_SIZE
        /\ Len(books[c].chunks) = 1
        /\ Len(Split(books[c].chunks[1])) = 3

\* C13: in a scheduler iteration where a send raises and every thread is
\* obtained, the due sessions other than the one whose send raised (so all
\* but one) are advanced and stamped with the date in that iteration.
C13_TickIsolatesFailure ==
    [][(ev'.op = "tick" /\ ev' # ev /\ ev'.raised /\ ~ev'.lost)
       => Cardinality({c \in Sessions :
                         /\ Due(books[c])
                         /\ \/ books'[c].last_auto_post_date # now.date
                            \/ /\ books[c].index < Len(books[c].chunks)
                               /\ books'[c].index = books[c].index}) <= 1]_vars

\* C14: with one advance at a time and /setchunksize running while it is
\* suspended in its send, once no handler is suspended every session has
\* index <= len(chunks) and completed = (index = len(chunks)).
C14_RechunkInFlight ==
    tasks = <<>> =>
        \A c \in Sessions :
            /\ books[c].index <= Len(books[c].chunks)
            /\ books[c].completed <=> (books[c].index = Len(books[c].chunks))

\* C15: a scheduler iteration that finds a session due leaves its
\* last_auto_post_date at today's date, whether the advance delivered a
\* chunk or nothing, the send raised, or the thread could not be obtained.
C15_DueIsStamped ==
    [][\A c \in Sessions :
         (ev'.op = "tick" /\ ev' # ev /\ Due(books[c]))
         => books'[c].last_auto_post_date = now.date]_vars

\* C16: a /jump whose delivery raises leaves index and completed as they
\* were before the command.
C16_JumpKeepsIndexOnFailure ==
    [][\A c \in Sessions :
         (ev'.op = "jump" /\ ev'.ch = c /\ ev' # ev /\ ev'.raised)
         => /\ books'[c].index = books[c].index
            /\ books'[c].completed = books[c].completed]_vars

\* C17 as stated: right after /join by an actor, whatever the state before,
\* the actor is in joined_users and not in latest_reactors.
C17_JoinClearsReaction ==
    ev.op = "join" =>
        /\ ev.user \in books[ev.ch].joined_users
        /\ ev.user \notin books[ev.ch].latest_reactors

\* C17 amended: /join by an actor who has not joined adds the actor to
\* joined_users, keeps the actor out of latest_reactors and changes nothing
\* else; /join by an actor who has joined already changes nothing, so a
\* reaction the actor has given to the latest message stays counted.
C17_JoinOnce ==
    [][\A c \in Sessions :
         (ev'.op = "join" /\ ev'.ch = c /\ ev' # ev)
         => LET u == ev'.user
                old == books[c]
                new == books'[c]
            IN  /\ u \in new.joined_users
                /\ IF u \in old.joined_users
                   THEN new = old
                   ELSE /\ new = [old EXCEPT !.joined_users = @ \cup {u}]
                        /\ u \notin new.latest_reactors]_vars

\* A, joined with B, has acknowledged the latest message and then run /join
\* again: A's reaction is still counted.
C17_Witness ==
    /\ ev.op = "join" /\ ev.user = "A"
    /\ books[ev.ch].joined_users = {"A", "B"}
    /\ books[ev.ch].latest_reactors = {"A"}

\* C18: a reaction by the bot itself, on a completed session, on a message
\* other than the latest chunk message, or by an actor who has not joined
\* changes no field of the session and triggers no delivery.
C18_IgnoredAck ==
    [][\A c \in Sessions :
         (/\ ev'.op = "ack" /\ ev'.ch = c /\ ev' # ev
          /\ \/ ev'.user = SelfId
             \/ books[c].completed
             \/ ev'.arg # books[c].latest_message_id
             \/ ev'.user \notin books[c].joined_users)
         => /\ books'[c] = books[c]
            /\ nextMsgId' = nextMsgId
            /\ ~ev'.trig
            /\ ev'.sends = 0]_vars

\* B, who has not joined, has reacted to the latest chunk message of a
\* session A has joined and not acknowledged yet; nothing was counted.
C18_Witness ==
    /\ ev.op = "ack" /\ ev.user = "B"
    /\ books[ev.ch].joined_users = {"A"}
    /\ books[ev.ch].latest_reactors = {}
    /\ ~books[ev.ch].completed
    /\ books[ev.ch].latest_message_id # None
    /\ ev.arg = books[ev.ch].latest_message_id

\* C19: send_chunk_batch with a batch size of zero or less, or on a
\* completed session, returns 0, sends nothing and changes nothing;
\* otherwise, when no send raises, it delivers the chunks index, index + 1,
\* ... in order, returns the smaller of the batch size and the number of
\* chunks left, and moves the index on by that number.
C19_BatchCount ==
    [][\A c \in Sessions :
         (ev'.op = "batch" /\ ev'.ch = c /\ ev' # ev)
         => IF ev'.arg <= 0 \/ books[c].completed
            THEN /\ ev'.sent = 0
                 /\ ev'.sends = 0
                 /\ books'[c] = books[c]
                 /\ nextMsgId' = nextMsgId
            ELSE ~ev'.raised
                 => LET n == Min(ev'.arg, Len(books[c].chunks) - books[c].index)
                    IN  /\ ev'.sent = n
                        /\ books'[c].index = books[c].index + n
                        /\ ev'.log = [i \in 1..n |-> books[c].index + i - 1]]_vars

\* A batch of three has met two chunks left of three and delivered both,
\* the second and then the third.
C19_Witness ==
    /\ ev.op = "batch" /\ ev.arg = 3 /\ ev.sent = 2
    /\ ev.log = <<1, 2>>
    /\ Len(books[ev.ch].chunks) = 3
    /\ books[ev.ch].index = 3

\* C20: /again leaves index, completed, chunks and every field but
\* latest_message_id and latest_reactors as they were; when no send raises
\* it delivers chunk index - 1, records its last message and empties the
\* reactors; at index 0 it sends nothing and changes no field.
C20_AgainFrame ==
    [][\A c \in Sessions :
         (ev'.op = "again" /\ ev'.ch = c /\ ev' # ev)
         => IF books[c].index = 0
            THEN /\ books'[c] = books[c]
                 /\ ev'.sends = 0
                 /\ nextMsgId' = nextMsgId
            ELSE /\ books'[c] =
                       [books[c] EXCEPT
                          !.latest_message_id = books'[c].latest_message_id,
                          !.latest_reactors = books'[c].latest_reactors]
                 /\ ~ev'.raised
                    => /\ ev'.log = <<books[c].index - 1>>
                       /\ ev'.last # None
                       /\ books'[c].latest_message_id = ev'.last
                       /\ books'[c].latest_reactors = {}]_vars

\* /again has sent the first chunk of several once more to the readers A
\* and B; the index still stands on the second chunk.
C20_Witness ==
    /\ ev.op = "again" /\ ev.log = <<0>>
    /\ books[ev.ch].index = 1
    /\ Len(books[ev.ch].chunks) > 1
    /\ ~books[ev.ch].completed
    /\ books[ev.ch].joined_users = {"A", "B"}
    /\ books[ev.ch].latest_message_id = ev.last

\* C21: /start on a session with no time configured sets auto_active,
\* makes auto_post_time the current minute and last_auto_post_date today;
\* and as long as /settime has not run since, no iteration of the scheduler
\* on that date delivers anything for the session.
C21_StartsTomorrow ==
    [][\A c \in Sessions :
         /\ (c \in DOMAIN books' /\ books[c].auto_post_time = None
                                 /\ books'[c].auto_active)
            => /\ books'[c].auto_post_time = now.minute
               /\ books'[c].last_auto_post_date = now.date
         /\ (hist[c].started = now.date /\ ev'.op = "tick")
            => /\ books'[c] = books[c]
               /\ hist'[c].adv = hist[c].adv]_vars

\* The scheduler has run in the very minute /start was given, on a session
\* with chunks left and no /settime since: it delivered nothing.
C21_Witness ==
    /\ ev.op = "tick" /\ loopRunning
    /\ \E c \in Sessions :
          /\ hist[c].started = now.date
          /\ books[c].auto_active
          /\ books[c].auto_post_time = now.minute
          /\ ~books[c].completed
          /\ books[c].index < Len(books[c].chunks)

C23_BuildPartitions ==
    cb.pc \in {"built", "rebuilt"} =>
        LET n == IF cb.k < MIN_CHUNK_SIZE THEN MIN_CHUNK_SIZE
                 ELSE IF cb.k > MAX_CHUNK_SIZE THEN MAX_CHUNK_SIZE ELSE cb.k
            len == Len(cb.P)
            count == (len + n - 1) \div n
        IN  /\ Len(cb.built) = count
            /\ len = 0 => cb.built = <<>>
            /\ \A j \in 1..count :
                  LET held == IF j < count THEN n ELSE len - (count - 1) * n
                  IN  /\ 1 <= held /\ held <= n
                      /\ cb.built[j] =
                           Join(SubSeq(cb.P, (j - 1) * n + 1, (j - 1) * n + held))

\* Three paragraphs built by twos: a chunk of two and a last chunk of one.
C23_Witness ==
    /\ cb.pc = "built" /\ cb.k = 2
    /\ Len(cb.P) = 3
    /\ cb.built = <<Join(SubSeq(cb.P, 1, 2)), cb.P[3]>>

\* C24: in a session advanced only by /more, the scheduler and the
\* reactions, one at a time and with every send succeeding, no chunk is
\* delivered twice, the chunks delivered are the first ones of the text, each
\* step delivers the next ones in ascending order, and a completed session
\* has had every chunk delivered once.
C24_InOrderOnce ==
    [][\A c \in Sessions :
         LET adv == hist[c].adv
             done == Cardinality({i \in ChunkIndexes : adv[i] >= 1})
         IN  /\ \A i \in ChunkIndexes : adv[i] <= 1
             /\ \A i \in ChunkIndexes : adv[i] >= 1 => i < done
             /\ books[c].completed
                => \A i \in 0..(Len(books[c].chunks) - 1) : adv[i] = 1
             /\ hist'[c].adv # adv
                => /\ ev'.log # <<>>
                   /\ ev'.log = [k \in 1..Len(ev'.log) |-> done + k - 1]]_vars

\* The scheduler has delivered the second and last chunk of a text whose
\* first chunk was delivered before: both once, the session completed.
C24_Witness ==
    /\ ev.op = "tick" /\ ev.log = <<1>>
    /\ \E c \in Sessions :
          /\ Len(books[c].chunks) = 2
          /\ books[c].completed
          /\ hist[c].adv[0] = 1 /\ hist[c].adv[1] = 1

\* C25: latest_reactors is always a subset of joined_users; a step records
\* as reactors only users who have joined, never takes a user out of
\* joined_users, and leaves latest_reactors empty when it delivers a chunk.
C25_ReactorsJoined ==
    [][\A c \in Sessions :
         /\ books[c].latest_reactors \subseteq books[c].joined_users
         /\ c \in DOMAIN books'
            => /\ books'[c].latest_reactors \subseteq books'[c].joined_users
               /\ (books'[c].latest_reactors \ books[c].latest_reactors)
                     \subseteq books[c].joined_users
               /\ books[c].joined_users \subseteq books'[c].joined_users
               /\ (ev' # ev /\ ev'.ch = c /\ ev'.log # <<>>)
                  => books'[c].latest_reactors = {}]_vars

\* A, joined with B, has reacted to the latest chunk message and is the one
\* reactor recorded; B's reaction is still awaited.
C25_Witness ==
    /\ ev.op = "ack" /\ ev.user = "A" /\ ~ev.ignored /\ ~ev.trig
    /\ books[ev.ch].joined_users = {"A", "B"}
    /\ books[ev.ch].latest_reactors = {"A"}
    /\ ev.arg = books[ev.ch].latest_message_id

====
